---- MODULE Spec2Model ----
(***************************************************************************)
(* PBSLauncher (smartsim/launcher/pbs/pbsLauncher.py): run, stop and       *)
(* get_step_update over the step mapping registry, the task supervisor     *)
(* and the PBS scheduler reached through qsub / qstat / qdel.              *)
(*                                                                         *)
(* Python values are encoded as follows.  A str is a sequence of one-      *)
(* character strings.  An optional value (None or a value) is a sequence   *)
(* of length at most one: None == << >>, Some(x) == <<x>>.  A task id is a *)
(* positive integer (a pid); NoTask == 0 stands for task_id = None, which  *)
(* has the same truth value in `if stepmap.task_id`.                       *)
(***************************************************************************)
EXTENDS Integers, Sequences, FiniteSets, TLC

\* ------------------------------------------------------------------ bounds
Names == {"a", "b"}

\* Launches that start a task or queue a job (run calls past their launch).
MaxRuns == 2

MaxLen == 2

\* trials=5 of _get_pbs_step_id
Trials == 5

ExitCodes == {0, 1}

WS == {" ", "\n"}

VARIABLES
    mapping,      \* step_mapping: name -> entry, or NoEntry
    monitoring,   \* task_manager.actively_monitoring
    starts,       \* number of task_manager.start() calls
    ntasks,       \* number of tasks started so far (task ids are 1..ntasks)
    table,        \* supervisor task table: task id -> tracked / status / rc
    njobs,        \* number of scheduler jobs created so far (ids 1..njobs)
    jobs,         \* scheduler records: job -> name and raw state
    pc,           \* "idle", or "polling" while run is inside _get_pbs_step_id
    cur,          \* the locals of the run call in progress
    res,          \* what the last completed launcher call did and returned
    termSeen      \* names for which a terminal status has been returned

vars == <<mapping, monitoring, starts, ntasks, table, njobs, jobs, pc, cur, res, termSeen>>

\* ------------------------------------------------------------ python values
None == << >>

Some(x) == <<x>>

NoTask == 0

NoEntry == [step_id |-> None, task_id |-> NoTask, managed |-> FALSE, present |-> FALSE]

StepMap(step_id, task_id, managed) ==
    [step_id |-> step_id, task_id |-> task_id, managed |-> managed, present |-> TRUE]

\* The steps a caller can hand to run: a QsubBatchStep is managed; any other
\* step is started through start_task and carries its own managed flag.
Steps ==
    [name : Names, kind : {"Batch"}, managed : {TRUE}]
        \cup [name : Names, kind : {"DirectRun"}, managed : BOOLEAN]

\* The text of scheduler job id k.
IdText(k) == <<ToString(k)>>

\* str.strip(): leading and trailing whitespace removed.
RECURSIVE LStrip(_)
LStrip(s) == IF s # << >> /\ Head(s) \in WS THEN LStrip(Tail(s)) ELSE s

RECURSIVE RStrip(_)
RStrip(s) ==
    IF s # << >> /\ s[Len(s)] \in WS THEN RStrip(SubSeq(s, 1, Len(s) - 1)) ELSE s

Strip(s) == RStrip(LStrip(s))

\* Python truthiness of an optional str: None and "" are falsy.
Falsy(step_id) == step_id = None \/ step_id = Some(<< >>)

\* str(x) of an optional str.
Str(x) == IF x = None THEN <<"N", "o", "n", "e">> ELSE x[1]

\* ------------------------------------------------------------ status model
Terminal == {"Completed", "Failed", "Cancelled"}

NonTerminal == {"Pending", "Running", "Unknown"}

Canonical == Terminal \cup NonTerminal

\* Raw codes a status query can carry for one job; "??" is a record that
\* does not parse, "NOTFOUND" a job the scheduler has no record of.
RawCodes == {"Q", "R", "F", "NOTFOUND", "??"}

\* The backend's map from raw code to canonical status.
PBSStatus(raw) ==
    CASE raw = "Q" -> "Pending"
      [] raw = "R" -> "Running"
      [] raw = "F" -> "Completed"
      [] raw = "NOTFOUND" -> "Completed"
      [] OTHER -> "Unknown"

StepInfo(status, returncode) == [status |-> status, returncode |-> returncode]

\* PBSStepInfo(stat, None)
PBSStepInfo(raw, returncode) == StepInfo(PBSStatus(raw), returncode)

\* UnmanagedStepInfo(stat, rc, out, err)
UnmanagedStepInfo(stat, rc) == StepInfo(stat, rc)

\* ---------------------------------------------------------------- scheduler
NoJob == [name |-> "-", st |-> "none"]

Live(k) == jobs[k].st \in {"Q", "R"}

\* What the scheduler holds for job k when asked.
TrueRaw(js, k) == IF js[k].st \in {"Q", "R", "F"} THEN js[k].st ELSE "NOTFOUND"

\* The outputs qstat(step_ids) can produce: the record of each job asked for
\* either carries its state or does not parse.
Views(js, step_ids) ==
    {v \in [1..MaxRuns -> RawCodes] :
        \A k \in 1..MaxRuns :
            \/ v[k] = TrueRaw(js, k)
            \/ v[k] = "??" /\ \E i \in 1..Len(step_ids) : Str(step_ids[i]) = IdText(k)}

\* parse_qstat_jobid(qstat_out, step_id)
ParseQstatJobid(view, step_id) ==
    IF \E k \in 1..MaxRuns : IdText(k) = step_id
    THEN view[CHOOSE k \in 1..MaxRuns : IdText(k) = step_id]
    ELSE "NOTFOUND"

\* What a successful qsub of job k can print.
SubmitOutputs(k) ==
    { << >>, <<"\n">>, IdText(k), IdText(k) \o <<"\n">>, <<" ">> \o IdText(k) \o <<"\n">> }

JobStart(k) ==
    /\ pc # "returned"
    /\ jobs[k].st = "Q"
    /\ jobs' = [jobs EXCEPT ![k].st = "R"]
    /\ UNCHANGED <<mapping, monitoring, starts, ntasks, table, njobs, pc, cur, res, termSeen>>

JobFinish(k) ==
    /\ pc # "returned"
    /\ jobs[k].st = "R"
    /\ jobs' = [jobs EXCEPT ![k].st = "F"]
    /\ UNCHANGED <<mapping, monitoring, starts, ntasks, table, njobs, pc, cur, res, termSeen>>

\* The scheduler drops a finished job from its history.
JobExpire(k) ==
    /\ pc # "returned"
    /\ jobs[k].st = "F"
    /\ jobs' = [jobs EXCEPT ![k].st = "X"]
    /\ UNCHANGED <<mapping, monitoring, starts, ntasks, table, njobs, pc, cur, res, termSeen>>

\* ---------------------------------------------------------- task supervisor
NoTaskRec == [tracked |-> FALSE, status |-> "none", rc |-> None]

\* start_task: a fresh entry for the spawned process.
StartTask(tb, t) == [tb EXCEPT ![t] = [tracked |-> TRUE, status |-> "Running", rc |-> None]]

\* remove_task: the task is no longer tracked; a process still running is
\* killed, and its last snapshot records that.
RemoveTask(tb, t) ==
    IF t \in DOMAIN tb /\ tb[t].tracked
    THEN [tb EXCEPT ![t] =
             IF @.status = "Running"
             THEN [tracked |-> FALSE, status |-> "Failed", rc |-> Some(-9)]
             ELSE [@ EXCEPT !.tracked = FALSE]]
    ELSE tb

\* get_task_update: the latest snapshot of the task.
GetTaskUpdate(tb, t) == <<tb[t].status, tb[t].rc>>

\* The monitoring loop sees tracked process t exit with code c.
TaskExit(t, c) ==
    /\ pc # "returned"
    /\ monitoring
    /\ table[t].tracked
    /\ table[t].status = "Running"
    /\ table' = [table EXCEPT ![t].status = IF c = 0 THEN "Completed" ELSE "Failed",
                              ![t].rc = Some(c)]
    /\ UNCHANGED <<mapping, monitoring, starts, ntasks, njobs, jobs, pc, cur, res, termSeen>>

\* ------------------------------------------------------ step mapping registry
\* StepMapping.get_ids(step_names, managed): two parallel lists.
RECURSIVE GetIds(_, _, _)
GetIds(m, step_names, managed) ==
    IF step_names = << >>
    THEN << << >>, << >> >>
    ELSE LET name == Head(step_names)
             rest == GetIds(m, Tail(step_names), managed)
         IN  IF m[name].present /\ managed /\ m[name].managed
             THEN << <<name>> \o rest[1], <<m[name].step_id>> \o rest[2] >>
             ELSE IF m[name].present /\ ~managed /\ ~m[name].managed
             THEN << <<name>> \o rest[1], <<m[name].task_id>> \o rest[2] >>
             ELSE rest

\* StepMapping.add(name, step_id, task_id, managed)
Add(m, name, step_id, task_id, managed) ==
    [m EXCEPT ![name] = StepMap(step_id, task_id, managed)]

\* zip(a, b) as a list of pairs
Zip(a, b) ==
    [i \in 1..(IF Len(a) < Len(b) THEN Len(a) ELSE Len(b)) |-> <<a[i], b[i]>>]

\* ------------------------------------------------------------ get_step_update
\* Mutant: a Completed status keeps the return code None.
ManagedStepUpdate_NoReturnCode(step_ids, view) ==
    [i \in 1..Len(step_ids) |-> PBSStepInfo(ParseQstatJobid(view, Str(step_ids[i])), None)]

\* Mutant: one record that does not parse makes every step of the query Unknown.
ManagedStepUpdate_FailsTogether(step_ids, view) ==
    [i \in 1..Len(step_ids) |->
        IF \E j \in 1..Len(step_ids) : ParseQstatJobid(view, Str(step_ids[j])) = "??"
        THEN PBSStepInfo("??", None)
        ELSE LET info == PBSStepInfo(ParseQstatJobid(view, Str(step_ids[i])), None)
             IN  IF info.status = "Completed" THEN [info EXCEPT !.returncode = Some(0)]
                 ELSE info]

\* _get_managed_step_update(step_ids): one qstat for all ids, then one
\* PBSStepInfo per id; a Completed status gets return code 0.
ManagedStepUpdate(step_ids, view) ==
    [i \in 1..Len(step_ids) |->
        LET info == PBSStepInfo(ParseQstatJobid(view, Str(step_ids[i])), None)
        IN  IF info.status = "Completed" THEN [info EXCEPT !.returncode = Some(0)] ELSE info]

\* Mutant: the return code of the task update is not passed on.
UnmanagedStepUpdate_DropsCode(tb, task_ids) ==
    [i \in 1..Len(task_ids) |->
        LET u == GetTaskUpdate(tb, task_ids[i]) IN UnmanagedStepInfo(u[1], None)]

\* _get_unmanaged_step_update(task_ids)
UnmanagedStepUpdate(tb, task_ids) ==
    [i \in 1..Len(task_ids) |->
        LET u == GetTaskUpdate(tb, task_ids[i]) IN UnmanagedStepInfo(u[1], u[2])]

\* Mutant: a single managed id is not queried (len(step_ids) > 1).
ManagedUpdates_SkipsSingle(m, step_names, view) ==
    LET ids == GetIds(m, step_names, TRUE)
    IN  IF Len(ids[2]) > 1 THEN Zip(ids[1], ManagedStepUpdate(ids[2], view)) ELSE << >>

\* The managed half of get_step_update.
ManagedUpdates(m, step_names, view) ==
    LET ids == GetIds(m, step_names, TRUE)
    IN  IF Len(ids[2]) > 0 THEN Zip(ids[1], ManagedStepUpdate(ids[2], view)) ELSE << >>

\* The unmanaged half of get_step_update.
UnmanagedUpdates(m, tb, step_names) ==
    LET ids == GetIds(m, step_names, FALSE)
    IN  IF Len(ids[2]) > 0 THEN Zip(ids[1], UnmanagedStepUpdate(tb, ids[2])) ELSE << >>

\* Mutant: the unmanaged updates are put first.
StepUpdates_UnmanagedFirst(m, tb, step_names, view) ==
    UnmanagedUpdates(m, tb, step_names) \o ManagedUpdates(m, step_names, view)

\* get_step_update(step_names): managed updates, then unmanaged updates.
StepUpdates(m, tb, step_names, view) ==
    ManagedUpdates(m, step_names, view) \o UnmanagedUpdates(m, tb, step_names)

\* Number of scheduler status queries one get_step_update issues.
StatusQueries(m, step_names) == IF Len(GetIds(m, step_names, TRUE)[2]) > 0 THEN 1 ELSE 0

\* Mutant: one qstat per managed step id.
QstatCalls_PerId(m, step_names) ==
    LET ids == GetIds(m, step_names, TRUE)[2]
    IN  [i \in 1..Len(ids) |-> <<ids[i]>>]

\* The qstat calls one get_step_update makes, each with the list of step ids
\* it is given: qstat(step_ids) once, inside `if len(step_ids) > 0`.
QstatCalls(m, step_names) ==
    LET ids == GetIds(m, step_names, TRUE)[2]
    IN  IF Len(ids) > 0 THEN <<ids>> ELSE << >>

\* The task ids one get_step_update hands to get_task_update, in order:
\* `for task_id in task_ids`.
TaskAsks(m, step_names) ==
    LET ids == GetIds(m, step_names, FALSE)[2]
    IN  IF Len(ids) > 0 THEN ids ELSE << >>

\* ------------------------------------------------------------- call records
NoStep == [name |-> "-", kind |-> "-", managed |-> FALSE]

NoCur == [step |-> NoStep, task_id |-> NoTask, trials |-> 0, nquery |-> 0, nsleep |-> 0,
          subrc |-> 0, out |-> None]

\* The record of a launcher call: what it was given, what it did, what it
\* returned or raised, and the registry and task table it started from.
Call(op) ==
    [op |-> op, step |-> NoStep, name |-> "-", names |-> << >>,
     raised |-> "none", ret |-> None,
     subrc |-> 0, out |-> None, task |-> NoTask,
     nquery |-> 0, nsleep |-> 0, yielded |-> None, attempt |-> 0,
     nstat |-> 0, npoll |-> 0, polled |-> None,
     cancelled |-> << >>, qdel_rc |-> 0, removed |-> {},
     view |-> << >>, qstat |-> << >>, asked |-> << >>,
     settings |-> "-", pretable |-> << >>,
     pre |-> IF op = "none" THEN << >> ELSE mapping]

\* The call returns (or raises): the caller holds its record.
Returns(call) ==
    /\ res' = call
    /\ pc' = "returned"

\* Names whose status in a list of updates is terminal.
TerminalNames(updates) ==
    {n \in Names : \E i \in 1..Len(updates) :
        updates[i][1] = n /\ updates[i][2].status \in Terminal}

\* ------------------------------------------------------------ create_step
\* The kinds of settings object a caller can hand to create_step
\* (smartsim.settings); "base" is a plain RunSettings.
SettingsKinds == {"aprun", "qsub", "mpirun", "srun", "base"}

\* The isinstance chain of create_step: the Step subtype built for a kind
\* of settings, "-" when no branch matches.
StepKind(step_settings) ==
    IF step_settings = "aprun" THEN "DirectRun"
    ELSE IF step_settings = "qsub" THEN "Batch"
    ELSE IF step_settings = "mpirun" THEN "DirectRun"
    ELSE "-"

\* create_step(name, cwd, step_settings): the step of the matching subtype;
\* LauncherError when its constructor raises SSConfigError; TypeError, which
\* the except clause does not catch, when no branch matches.
CreateStep(name, step_settings) ==
    /\ pc = "idle"
    /\ LET call == [Call("create_step") EXCEPT !.name = name, !.settings = step_settings,
                                               !.pretable = table]
       IN  IF StepKind(step_settings) # "-"
           THEN \/ \E step \in Steps :
                     /\ step.name = name
                     /\ step.kind = StepKind(step_settings)
                     /\ Returns([call EXCEPT !.step = step])
                \/ Returns([call EXCEPT !.raised = "LauncherError"])
           ELSE Returns([call EXCEPT !.raised = "TypeError"])
    /\ UNCHANGED <<mapping, monitoring, starts, ntasks, table, njobs, jobs, cur, termSeen>>

\* -------------------------------------------------------------------- run
\* Mutant: run calls start() whether or not the supervisor is monitoring.
EnsureMonitoring_AlwaysStarts ==
    /\ monitoring' = TRUE
    /\ starts' = starts + 1

\* if not self.task_manager.actively_monitoring: self.task_manager.start()
EnsureMonitoring ==
    /\ monitoring' = TRUE
    /\ starts' = IF monitoring THEN starts ELSE starts + 1

\* Mutant: the output is taken as the id without strip().
SubmitStepId_NoStrip(out) == IF out # << >> THEN Some(out) ELSE None

\* if out: step_id = out.strip()
SubmitStepId(out) == IF out # << >> THEN Some(Strip(out)) ELSE None

\* Mutant: only a missing id is polled for, not an empty one (step_id is None).
NeedsPolling_NoneOnly(step, step_id) == step_id = None /\ step.managed

\* if not step_id and step.managed
NeedsPolling(step, step_id) == Falsy(step_id) /\ step.managed

\* Mutant: the loop runs once more (trials >= 0).
LoopCond_Inclusive(trials) == trials >= 0

\* while trials > 0
LoopCond(trials) == trials > 0

\* Mutant: an existing entry is kept, not replaced.
Finish_KeepsExisting(step, step_id, task_id, call) ==
    /\ mapping' = IF mapping[step.name].present THEN mapping
                  ELSE Add(mapping, step.name, step_id, task_id, step.managed)
    /\ Returns([call EXCEPT !.ret = step_id])
    /\ cur' = NoCur

\* Mutant: the step is registered with the id run had before polling.
Finish_DropsId(step, step_id, task_id, call) ==
    /\ mapping' = Add(mapping, step.name, call.ret, task_id, step.managed)
    /\ Returns([call EXCEPT !.ret = step_id])
    /\ cur' = NoCur

\* self.step_mapping.add(step.name, step_id, task_id, step.managed); return step_id
Finish(step, step_id, task_id, call) ==
    /\ mapping' = Add(mapping, step.name, step_id, task_id, step.managed)
    /\ Returns([call EXCEPT !.ret = step_id])
    /\ cur' = NoCur

\* The tail of run once the step is launched: poll for the id when it is
\* missing and the step is managed, then register and return.
Resolve(step, step_id, task_id, call) ==
    IF NeedsPolling(step, step_id)
    THEN /\ pc' = "polling"
         /\ cur' = [step |-> step, task_id |-> task_id, trials |-> Trials,
                    nquery |-> 0, nsleep |-> 1, subrc |-> call.subrc, out |-> call.out]
         /\ UNCHANGED <<mapping, res>>
    ELSE Finish(step, step_id, task_id, call)

\* Mutant: the step is registered before the exit code is looked at.
RunBatchRejected_Registers(step) ==
    /\ pc = "idle"
    /\ step.kind = "Batch"
    /\ EnsureMonitoring
    /\ mapping' = Add(mapping, step.name, None, NoTask, step.managed)
    /\ \E rc \in {1, 2} :
          Returns([Call("run") EXCEPT !.step = step, !.name = step.name, !.subrc = rc,
                                      !.raised = "LauncherError"])
    /\ UNCHANGED <<ntasks, table, njobs, jobs, cur, termSeen>>

\* run of a QsubBatchStep whose qsub exits non-zero: LauncherError.
RunBatchRejected(step) ==
    /\ pc = "idle"
    /\ step.kind = "Batch"
    /\ EnsureMonitoring
    /\ \E rc \in {1, 2} :
          Returns([Call("run") EXCEPT !.step = step, !.name = step.name, !.subrc = rc,
                                      !.raised = "LauncherError"])
    /\ UNCHANGED <<mapping, ntasks, table, njobs, jobs, cur, termSeen>>

\* run of a QsubBatchStep whose qsub exits zero: the scheduler has queued a
\* job under the step's name, and the output may or may not carry its id.
RunBatchAccepted(step) ==
    /\ pc = "idle"
    /\ step.kind = "Batch"
    /\ njobs + ntasks < MaxRuns
    /\ EnsureMonitoring
    /\ njobs' = njobs + 1
    /\ jobs' = [jobs EXCEPT ![njobs + 1] = [name |-> step.name, st |-> "Q"]]
    /\ \E out \in SubmitOutputs(njobs + 1) :
          Resolve(step, SubmitStepId(out), NoTask,
                  [Call("run") EXCEPT !.step = step, !.name = step.name, !.out = Some(out)])
    /\ UNCHANGED <<ntasks, table, termSeen>>

\* Mutant: a name that already has an entry is refused.
RunDirect_RefusesKnownName(step) ==
    /\ pc = "idle"
    /\ step.kind = "DirectRun"
    /\ njobs + ntasks < MaxRuns
    /\ EnsureMonitoring
    /\ IF mapping[step.name].present
       THEN /\ Returns([Call("run") EXCEPT !.step = step, !.name = step.name,
                                           !.raised = "LauncherError"])
            /\ UNCHANGED <<mapping, ntasks, table, cur>>
       ELSE /\ ntasks' = ntasks + 1
            /\ table' = StartTask(table, ntasks + 1)
            /\ Resolve(step, None, ntasks + 1,
                       [Call("run") EXCEPT !.step = step, !.name = step.name,
                                           !.task = ntasks + 1])
    /\ UNCHANGED <<njobs, jobs, termSeen>>

\* run of any other step: start_task, whose task id is kept.
RunDirect(step) ==
    /\ pc = "idle"
    /\ step.kind = "DirectRun"
    /\ njobs + ntasks < MaxRuns
    /\ EnsureMonitoring
    /\ ntasks' = ntasks + 1
    /\ table' = StartTask(table, ntasks + 1)
    /\ Resolve(step, None, ntasks + 1,
               [Call("run") EXCEPT !.step = step, !.name = step.name, !.task = ntasks + 1])
    /\ UNCHANGED <<njobs, jobs, termSeen>>

\* The call record of the run that is inside _get_pbs_step_id.
PollCall(nquery, nsleep) ==
    [Call("run") EXCEPT !.step = cur.step, !.name = cur.step.name, !.task = cur.task_id,
                        !.subrc = cur.subrc, !.out = cur.out,
                        !.nquery = nquery, !.nsleep = nsleep]

\* One pass of the loop of _get_pbs_step_id in which the listing has no
\* entry for the step's name: sleep, trials -= 1.
PollMiss ==
    /\ pc = "polling"
    /\ LoopCond(cur.trials)
    /\ cur' = [cur EXCEPT !.trials = @ - 1, !.nquery = @ + 1, !.nsleep = @ + 1]
    /\ UNCHANGED <<mapping, monitoring, starts, ntasks, table, njobs, jobs, pc, res, termSeen>>

\* One pass of the loop in which the listing has job k under the step's
\* name: break, return its id; run registers the step.
PollHit(k) ==
    /\ pc = "polling"
    /\ LoopCond(cur.trials)
    /\ Live(k)
    /\ jobs[k].name = cur.step.name
    /\ Finish(cur.step, Some(IdText(k)), cur.task_id,
              [PollCall(cur.nquery + 1, cur.nsleep) EXCEPT
                  !.yielded = Some(IdText(k)), !.attempt = Trials - cur.trials + 1])
    /\ UNCHANGED <<monitoring, starts, ntasks, table, njobs, jobs, termSeen>>

\* The loop has used its trials: LauncherError, nothing is registered.
PollExhausted ==
    /\ pc = "polling"
    /\ ~LoopCond(cur.trials)
    /\ Returns([PollCall(cur.nquery, cur.nsleep) EXCEPT !.raised = "LauncherError"])
    /\ cur' = NoCur
    /\ UNCHANGED <<mapping, monitoring, starts, ntasks, table, njobs, jobs, termSeen>>

\* ------------------------------------------------------------------- stop
\* Mutant: the task of a managed step is left with the supervisor.
StopTable_ManagedKeepsTask(stepmap) ==
    IF stepmap.managed THEN table ELSE RemoveTask(table, stepmap.task_id)

\* The task table after the branch of stop on stepmap.managed.
StopTable(stepmap) ==
    IF stepmap.managed
    THEN IF stepmap.task_id # NoTask THEN RemoveTask(table, stepmap.task_id) ELSE table
    ELSE RemoveTask(table, stepmap.task_id)

\* Mutant: only a Failed status is overridden.
Override_OnlyFailed(step_info) ==
    IF step_info.status = "Failed" THEN [step_info EXCEPT !.status = "Cancelled"] ELSE step_info

\* step_info.status = "Cancelled"
Override(step_info) == [step_info EXCEPT !.status = "Cancelled"]

\* The scheduler job a step id names, 0 when it names none.
JobOf(step_id) ==
    IF \E j \in 1..MaxRuns : IdText(j) = Str(step_id)
    THEN CHOOSE j \in 1..MaxRuns : IdText(j) = Str(step_id)
    ELSE 0

\* Mutant: qdel is given the task id instead of the step id.
QdelArgs_TaskId(stepmap) == IF stepmap.managed THEN <<<<ToString(stepmap.task_id)>>>> ELSE << >>

\* The ids stop hands to qdel: qdel([str(stepmap.step_id)]) when managed.
QdelArgs(stepmap) == IF stepmap.managed THEN <<Str(stepmap.step_id)>> ELSE << >>

\* The exit codes qdel can end with: zero only for a job still queued or
\* running; none when stop does not call it.
QdelCodes(args) ==
    IF args = << >> THEN {0}
    ELSE {1} \cup {rc \in {0} : \E j \in 1..MaxRuns : IdText(j) = args[1] /\ Live(j)}

\* The scheduler after qdel(args) ended with qdel_rc: a cancelled job is over.
AfterQdel(args, qdel_rc) ==
    IF args # << >> /\ qdel_rc = 0
    THEN [j \in 1..MaxRuns |->
            IF IdText(j) = args[1] THEN [jobs[j] EXCEPT !.st = "F"] ELSE jobs[j]]
    ELSE jobs

\* Mutant: stop tears the registry entry down once it has polled the step.
Stop_RemovesEntry(name) ==
    /\ pc = "idle"
    /\ mapping[name].present
    /\ LET stepmap == mapping[name]
           args == QdelArgs(stepmap)
       IN  \E qdel_rc \in QdelCodes(args) :
             /\ jobs' = AfterQdel(args, qdel_rc)
             /\ table' = StopTable(stepmap)
             /\ \E view \in Views(jobs', GetIds(mapping, <<name>>, TRUE)[2]) :
                  LET updates == StepUpdates(mapping, table', <<name>>, view)
                      call == [Call("stop") EXCEPT
                                   !.name = name,
                                   !.cancelled = args,
                                   !.qdel_rc = qdel_rc,
                                   !.removed = {t \in 1..MaxRuns :
                                                   table[t].tracked /\ ~table'[t].tracked},
                                   !.npoll = 1,
                                   !.view = view,
                                   !.qstat = QstatCalls(mapping, <<name>>),
                                   !.asked = TaskAsks(mapping, <<name>>),
                                   !.nstat = StatusQueries(mapping, <<name>>)]
                  IN  IF updates = << >>
                      THEN Returns([call EXCEPT !.raised = "IndexError"])
                      ELSE Returns([call EXCEPT !.polled = Some(updates[1][2]),
                                                !.ret = Override(updates[1][2])])
    /\ mapping' = [mapping EXCEPT ![name] = NoEntry]
    /\ UNCHANGED <<monitoring, starts, ntasks, njobs, cur, termSeen>>

\* stop(step_name) on a name the registry holds.
Stop(name) ==
    /\ pc = "idle"
    /\ mapping[name].present
    /\ LET stepmap == mapping[name]
           args == QdelArgs(stepmap)
       IN  \E qdel_rc \in QdelCodes(args) :
             /\ jobs' = AfterQdel(args, qdel_rc)
             /\ table' = StopTable(stepmap)
             /\ \E view \in Views(jobs', GetIds(mapping, <<name>>, TRUE)[2]) :
                  LET updates == StepUpdates(mapping, table', <<name>>, view)
                      call == [Call("stop") EXCEPT
                                   !.name = name,
                                   !.cancelled = args,
                                   !.qdel_rc = qdel_rc,
                                   !.removed = {t \in 1..MaxRuns :
                                                   table[t].tracked /\ ~table'[t].tracked},
                                   !.npoll = 1,
                                   !.view = view,
                                   !.qstat = QstatCalls(mapping, <<name>>),
                                   !.asked = TaskAsks(mapping, <<name>>),
                                   !.nstat = StatusQueries(mapping, <<name>>)]
                  IN  IF updates = << >>
                      THEN Returns([call EXCEPT !.raised = "IndexError"])
                      ELSE Returns([call EXCEPT !.polled = Some(updates[1][2]),
                                                !.ret = Override(updates[1][2])])
    /\ UNCHANGED <<mapping, monitoring, starts, ntasks, njobs, cur, termSeen>>

\* Mutant: an unknown name is polled and reported Cancelled like any other.
StopMissing_ReturnsCancelled(name) ==
    /\ pc = "idle"
    /\ ~mapping[name].present
    /\ Returns([Call("stop") EXCEPT !.name = name, !.npoll = 1,
                                    !.ret = Override(StepInfo("Unknown", None))])
    /\ UNCHANGED <<mapping, monitoring, starts, ntasks, table, njobs, jobs, cur, termSeen>>

\* stop(step_name) on a name the registry does not hold: the lookup fails.
StopMissing(name) ==
    /\ pc = "idle"
    /\ ~mapping[name].present
    /\ Returns([Call("stop") EXCEPT !.name = name, !.raised = "KeyError"])
    /\ UNCHANGED <<mapping, monitoring, starts, ntasks, table, njobs, jobs, cur, termSeen>>

\* -------------------------------------------------------- get_step_update
NameLists == UNION {[1..n -> Names] : n \in 0..MaxLen}

\* Mutant: a task whose update is terminal is removed from the supervisor.
Update_DropsFinished(step_names) ==
    /\ pc = "idle"
    /\ \E view \in Views(jobs, GetIds(mapping, step_names, TRUE)[2]) :
         LET updates == StepUpdates(mapping, table, step_names, view)
             asked == TaskAsks(mapping, step_names)
         IN  /\ Returns([Call("update") EXCEPT !.names = step_names,
                                               !.view = view,
                                               !.qstat = QstatCalls(mapping, step_names),
                                               !.asked = asked,
                                               !.nstat = StatusQueries(mapping, step_names),
                                               !.ret = updates])
             /\ table' = [t \in 1..MaxRuns |->
                            IF /\ \E j \in 1..Len(asked) : asked[j] = t
                               /\ table[t].status \in Terminal
                            THEN [table[t] EXCEPT !.tracked = FALSE]
                            ELSE table[t]]
    /\ UNCHANGED <<mapping, monitoring, starts, ntasks, njobs, jobs, cur, termSeen>>

Update(step_names) ==
    /\ pc = "idle"
    /\ \E view \in Views(jobs, GetIds(mapping, step_names, TRUE)[2]) :
         LET updates == StepUpdates(mapping, table, step_names, view)
         IN  Returns([Call("update") EXCEPT !.names = step_names,
                                           !.view = view,
                                           !.qstat = QstatCalls(mapping, step_names),
                                           !.asked = TaskAsks(mapping, step_names),
                                           !.nstat = StatusQueries(mapping, step_names),
                                           !.ret = updates])
    /\ UNCHANGED <<mapping, monitoring, starts, ntasks, table, njobs, jobs, cur, termSeen>>

\* The updates a call returned: those of get_step_update, the one of stop.
Results(call) ==
    IF call.raised # "none" THEN << >>
    ELSE IF call.op = "update" THEN call.ret
    ELSE IF call.op = "stop" THEN << <<call.name, call.ret>> >>
    ELSE << >>

\* The caller takes the result of the call that returned; the names it has
\* now seen a terminal status for are remembered.
Return ==
    /\ pc = "returned"
    /\ pc' = "idle"
    /\ res' = Call("none")
    /\ termSeen' = termSeen \cup TerminalNames(Results(res))
    /\ UNCHANGED <<mapping, monitoring, starts, ntasks, table, njobs, jobs, cur>>

\* ------------------------------------------------------------ specification
Init ==
    /\ mapping = [n \in Names |-> NoEntry]
    /\ monitoring = FALSE
    /\ starts = 0
    /\ ntasks = 0
    /\ table = [t \in 1..MaxRuns |-> NoTaskRec]
    /\ njobs = 0
    /\ jobs = [k \in 1..MaxRuns |-> NoJob]
    /\ pc = "idle"
    /\ cur = NoCur
    /\ res = Call("none")
    /\ termSeen = {}

Next ==
    \/ \E name \in Names, step_settings \in SettingsKinds : CreateStep(name, step_settings)
    \/ \E step \in Steps : RunBatchRejected(step)
    \/ \E step \in Steps : RunBatchAccepted(step)
    \/ \E step \in Steps : RunDirect(step)
    \/ PollMiss
    \/ \E k \in 1..MaxRuns : PollHit(k)
    \/ PollExhausted
    \/ \E name \in Names : Stop(name)
    \/ \E name \in Names : StopMissing(name)
    \/ \E step_names \in NameLists : Update(step_names)
    \/ Return
    \/ \E k \in 1..MaxRuns : JobStart(k)
    \/ \E k \in 1..MaxRuns : JobFinish(k)
    \/ \E k \in 1..MaxRuns : JobExpire(k)
    \/ \E t \in 1..MaxRuns, c \in ExitCodes : TaskExit(t, c)

Spec == Init /\ [][Next]_vars

\* ------------------------------------------------------------------ claims
Returned(op) == pc = "returned" /\ res.op = op

\* C1: when the qsub of a Batch step exits non-zero, run raises LauncherError,
\* returns no identifier, and the registry is what it was before the call.
C1_RejectedSubmission ==
    (Returned("run") /\ res.step.kind = "Batch" /\ res.subrc # 0)
        => /\ res.raised = "LauncherError"
           /\ res.ret = None
           /\ mapping = res.pre

\* A rejected submission of a name while the registry holds entries.
C1_Witness ==
    /\ Returned("run")
    /\ res.step.kind = "Batch"
    /\ res.subrc # 0
    /\ res.raised = "LauncherError"
    /\ \E n \in Names : mapping[n].present

\* C2: when no listing query yields the step's id, run raises LauncherError
\* after exactly Trials queries, never more; it returns no identifier and the
\* registry is left as it was.
C2_PollingExhausted ==
    /\ (pc = "polling" => cur.nquery <= Trials /\ cur.nquery = Trials - cur.trials)
    /\ (Returned("run") => res.nquery <= Trials)
    /\ (Returned("run") /\ res.raised = "LauncherError" /\ res.subrc = 0)
          => /\ res.nquery = Trials
             /\ res.yielded = None
             /\ res.ret = None
             /\ mapping = res.pre

\* A managed step whose polling used every trial without a match.
C2_Witness ==
    /\ Returned("run")
    /\ res.raised = "LauncherError"
    /\ res.subrc = 0
    /\ res.step.managed
    /\ res.nquery = Trials

\* C3: when the listing first yields the step's id on attempt k, run succeeds
\* after exactly k queries (k in 1..Trials), returns that id and records it as
\* the step id of the entry for the step's name.
C3_PollingHit ==
    (Returned("run") /\ res.yielded # None)
        => /\ res.raised = "none"
           /\ res.attempt \in 1..Trials
           /\ res.nquery = res.attempt
           /\ res.nsleep = res.attempt
           /\ res.ret = res.yielded
           /\ mapping[res.name].present
           /\ mapping[res.name].step_id = res.yielded
           /\ mapping[res.name].task_id = res.task
           /\ mapping[res.name].managed

\* The id is found on the last attempt of the budget.
C3_Witness ==
    /\ Returned("run")
    /\ res.yielded # None
    /\ res.attempt = Trials
    /\ mapping[res.name].step_id = res.yielded

\* C4: every registry entry has a step id when managed and a task id when
\* unmanaged; a successful run of a DirectRun step registers the task id that
\* start_task returned, a successful run of a Batch step a scheduler job id.
C4_EntryWellFormed ==
    /\ \A n \in Names :
          mapping[n].present =>
              /\ mapping[n].managed => ~Falsy(mapping[n].step_id)
              /\ ~mapping[n].managed => mapping[n].task_id # NoTask
    /\ (Returned("run") /\ res.raised = "none" /\ res.step.kind = "DirectRun")
          => /\ res.task \in 1..ntasks
             /\ mapping[res.name].task_id = res.task
    /\ (Returned("run") /\ res.raised = "none" /\ res.step.kind = "Batch")
          => /\ JobOf(mapping[res.name].step_id) \in 1..njobs
             /\ jobs[JobOf(mapping[res.name].step_id)].name = res.name

\* The registry holds a managed and an unmanaged entry after a Batch run
\* whose output was whitespace only.
C4_Witness ==
    /\ Returned("run")
    /\ res.raised = "none"
    /\ res.step.kind = "Batch"
    /\ res.out # None /\ res.out[1] # << >> /\ Strip(res.out[1]) = << >>
    /\ \E n \in Names : mapping[n].present /\ ~mapping[n].managed
\* The canonical status the scheduler's record of a step id stands for.
RecordStatus(step_id) ==
    IF JobOf(step_id) = 0 THEN "Completed" ELSE PBSStatus(TrueRaw(jobs, JobOf(step_id)))

IsManaged(n) == mapping[n].present /\ mapping[n].managed

IsUnmanaged(n) == mapping[n].present /\ ~mapping[n].managed

\* C5: get_step_update returns the managed results before the unmanaged ones,
\* each group in the order of its names in the input, the i-th managed name
\* paired with the status of the i-th managed step id and the i-th unmanaged
\* name with the status of the i-th task id.
C5_UpdateOrder ==
    Returned("update") =>
        LET mn == SelectSeq(res.names, IsManaged)
            un == SelectSeq(res.names, IsUnmanaged)
            r == res.ret
        IN  /\ Len(r) = Len(mn) + Len(un)
            /\ \A i \in 1..Len(mn) :
                  /\ r[i][1] = mn[i]
                  /\ r[i][2].status \in {RecordStatus(mapping[mn[i]].step_id), "Unknown"}
            /\ \A j \in 1..Len(un) :
                  /\ r[Len(mn) + j][1] = un[j]
                  /\ r[Len(mn) + j][2].status = table[mapping[un[j]].task_id].status
                  /\ r[Len(mn) + j][2].returncode = table[mapping[un[j]].task_id].rc

\* An unmanaged name is asked for before a managed one, and their statuses differ.
C5_Witness ==
    /\ Returned("update")
    /\ Len(res.names) = 2
    /\ IsUnmanaged(res.names[1])
    /\ IsManaged(res.names[2])
    /\ Len(res.ret) = 2
    /\ res.ret[1][1] = res.names[2]
    /\ res.ret[1][2].status # res.ret[2][2].status

\* C6: for distinct names, get_step_update returns exactly one pair for each
\* name that has an entry and none for a name without one, raises nothing, and
\* the status of a managed name's pair is canonical.
C6_OnePairPerName ==
    (Returned("update") /\ \A i, j \in 1..Len(res.names) : res.names[i] = res.names[j] => i = j)
        => /\ res.raised = "none"
           /\ \A n \in Names :
                 Cardinality({i \in 1..Len(res.ret) : res.ret[i][1] = n})
                     = IF mapping[n].present /\ \E j \in 1..Len(res.names) : res.names[j] = n
                       THEN 1 ELSE 0
           /\ \A i \in 1..Len(res.ret) :
                 IsManaged(res.ret[i][1]) => res.ret[i][2].status \in Canonical

\* A managed name and a name without an entry are asked for together.
C6_Witness ==
    /\ Returned("update")
    /\ Len(res.names) = 2
    /\ ~mapping[res.names[1]].present
    /\ IsManaged(res.names[2])
    /\ Len(res.ret) = 1

\* C7: stop on a registered managed step hands that step's id to qdel; when
\* qdel exits non-zero, stop does not raise and returns status Cancelled.
C7_CancelBestEffort ==
    (Returned("stop") /\ IsManaged(res.name))
        => /\ res.cancelled = <<Str(mapping[res.name].step_id)>>
           /\ res.raised = "none"
           /\ res.ret.status = "Cancelled"

\* qdel exited non-zero for a managed step that is still queued or running.
C7_Witness ==
    /\ Returned("stop")
    /\ IsManaged(res.name)
    /\ res.qdel_rc # 0
    /\ Live(JobOf(mapping[res.name].step_id))
    /\ res.ret.status = "Cancelled"

\* C8: for every registered step, stop polls the step once and returns that
\* StepInfo with its status set to Cancelled, whatever the poll reported.
C8_AlwaysCancelled ==
    (Returned("stop") /\ mapping[res.name].present)
        => /\ res.raised = "none"
           /\ res.npoll = 1
           /\ res.polled # None
           /\ res.polled[1].status \in Canonical
           /\ res.ret.status = "Cancelled"
           /\ res.ret.returncode = res.polled[1].returncode
           /\ IsUnmanaged(res.name) =>
                 res.polled[1].status = table[mapping[res.name].task_id].status

\* An unmanaged step had completed before stop removed its task.
C8_Witness ==
    /\ Returned("stop")
    /\ IsUnmanaged(res.name)
    /\ res.removed = {mapping[res.name].task_id}
    /\ res.polled[1].status = "Completed"
    /\ res.ret.status = "Cancelled"

\* The step an entry stands for is still running or queued.
ActiveEntry(e) ==
    /\ e.present
    /\ IF e.managed
       THEN JobOf(e.step_id) # 0 /\ Live(JobOf(e.step_id))
       ELSE table[e.task_id].tracked /\ table[e.task_id].status = "Running"

\* C9 as claimed: run for a name that has an active entry is an error and the
\* existing entry is not replaced.
C9_AsClaimed ==
    (Returned("run") /\ ActiveEntry(res.pre[res.name]))
        => /\ res.raised # "none"
           /\ mapping[res.name] = res.pre[res.name]

\* C9 amended: the registry holds one entry per name; run for a name that has
\* an entry raises only when the launch itself fails, and a successful run
\* replaces the entry with the new step's ids, leaving other names alone.
C9_Replaces ==
    (Returned("run") /\ res.pre[res.name].present)
        => /\ res.raised # "none" => (res.subrc # 0 \/ res.nquery = Trials) /\ mapping = res.pre
           /\ res.raised = "none" =>
                 /\ mapping[res.name] = StepMap(res.ret, res.task, res.step.managed)
                 /\ \A n \in Names \ {res.name} : mapping[n] = res.pre[n]

\* A successful run replaced the entry of a step that was still active.
C9_Witness ==
    /\ Returned("run")
    /\ res.raised = "none"
    /\ ActiveEntry(res.pre[res.name])
    /\ mapping[res.name] # res.pre[res.name]

\* C10: once a terminal status has been returned for a name, no later result
\* of get_step_update or stop for that name has a non-terminal status.  Stated
\* here for the non-terminal statuses a parsed scheduler record gives, Pending
\* and Running; the claim rules out Unknown as well.
C10_Monotonic ==
    pc = "returned" =>
        \A i \in 1..Len(Results(res)) :
            Results(res)[i][1] \in termSeen
                => Results(res)[i][2].status \notin {"Pending", "Running"}

\* C11 as claimed: after stop(name) the registry entry for that name is gone.
C11_AsClaimed ==
    (Returned("stop") /\ res.pre[res.name].present) => ~mapping[res.name].present

\* C11 amended: the registry is empty before any run; a name gets its entry
\* only by a run for that name that returns without raising, every such run
\* leaves an entry, and no operation removes one: stop leaves the registry
\* as it found it.
C11_Lifecycle ==
    /\ \A n \in Names : ~mapping[n].present
    /\ [][ /\ \A n \in Names :
               /\ mapping[n].present => mapping'[n].present
               /\ (~mapping[n].present /\ mapping'[n].present)
                     => /\ pc' = "returned"
                        /\ res'.op = "run"
                        /\ res'.raised = "none"
                        /\ res'.name = n
           /\ (pc # "returned" /\ pc' = "returned" /\ res'.op = "run")
                 => IF res'.raised = "none"
                    THEN mapping'[res'.name].present
                    ELSE mapping' = mapping
           /\ (pc # "returned" /\ pc' = "returned" /\ res'.op = "stop")
                 => mapping' = mapping ]_vars

\* stop has returned for a registered unmanaged step whose task it removed,
\* and the entry is still in the registry.
C11_Witness ==
    /\ Returned("stop")
    /\ res.raised = "none"
    /\ res.removed # {}
    /\ mapping[res.name].present
    /\ mapping = res.pre

\* The scheduler no longer has the job a step id names in its history.
NotInHistory(step_id) ==
    JobOf(step_id) = 0 \/ jobs[JobOf(step_id)].st \in {"X", "none"}

\* The record the status query gave for a step id did not parse.
ParseFailed(view, step_id) == JobOf(step_id) # 0 /\ view[JobOf(step_id)] = "??"

\* C12: a managed step whose job the scheduler no longer has in its history,
\* the status query having given a record that parses, is reported by
\* get_step_update with status Completed and return code 0.
C12_NotFoundCompleted ==
    Returned("update") =>
        \A i \in 1..Len(res.ret) :
            LET n == res.ret[i][1] IN
            (IsManaged(n) /\ NotInHistory(mapping[n].step_id)
                          /\ ~ParseFailed(res.view, mapping[n].step_id))
                => /\ res.raised = "none"
                   /\ res.ret[i][2].status = "Completed"
                   /\ res.ret[i][2].returncode = Some(0)

\* A managed step ran, finished and was dropped from the scheduler's history
\* before it was polled.
C12_Witness ==
    /\ Returned("update")
    /\ Len(res.ret) = 1
    /\ IsManaged(res.ret[1][1])
    /\ JobOf(mapping[res.ret[1][1]].step_id) # 0
    /\ jobs[JobOf(mapping[res.ret[1][1]].step_id)].st = "X"
    /\ res.ret[1][2] = StepInfo("Completed", Some(0))

\* C13: in a get_step_update over managed steps the call does not raise; a
\* step whose record did not parse gets status Unknown, and every other step
\* of the same call gets the status of its own scheduler record.
C13_ParseFailureIsolated ==
    Returned("update") =>
        /\ res.raised = "none"
        /\ Len(res.ret) = Len(SelectSeq(res.names, IsManaged))
                              + Len(SelectSeq(res.names, IsUnmanaged))
        /\ \A i \in 1..Len(res.ret) :
              LET n == res.ret[i][1] IN
              IsManaged(n) =>
                  res.ret[i][2].status =
                      IF ParseFailed(res.view, mapping[n].step_id)
                      THEN "Unknown"
                      ELSE RecordStatus(mapping[n].step_id)

\* Two managed steps are polled together; the record of the first does not
\* parse, the second is reported from its own record.
C13_Witness ==
    /\ Returned("update")
    /\ Len(res.ret) = 2
    /\ res.ret[1][1] # res.ret[2][1]
    /\ IsManaged(res.ret[1][1])
    /\ IsManaged(res.ret[2][1])
    /\ ParseFailed(res.view, mapping[res.ret[1][1]].step_id)
    /\ ~ParseFailed(res.view, mapping[res.ret[2][1]].step_id)
    /\ res.ret[1][2].status = "Unknown"
    /\ res.ret[2][2].status = "Running"

\* The error classes the library has for a configuration that cannot be used.
ConfigErrors == {"SSConfigError", "SSUnsupportedError"}

\* C14: create_step with settings of a kind other than aprun, qsub batch and
\* mpirun raises a configuration error, returns no step and leaves the
\* registry and the task table as they were; when it returns a step for a
\* supported kind, the step is of the matching kind (qsub gives a Batch
\* step, aprun and mpirun give DirectRun steps).
C14_CreateStep ==
    Returned("create_step") =>
        /\ mapping = res.pre
        /\ table = res.pretable
        /\ res.settings \notin {"aprun", "qsub", "mpirun"}
              => /\ res.raised \in ConfigErrors
                 /\ res.step = NoStep
        /\ (res.settings \in {"aprun", "qsub", "mpirun"} /\ res.raised = "none")
              => /\ res.step.name = res.name
                 /\ res.step.kind = IF res.settings = "qsub" THEN "Batch" ELSE "DirectRun"

\* C15: for an unmanaged step whose process has exited with code c,
\* get_step_update of the step's name returns exactly one pair, for that
\* name, with a terminal status and return code c as the supervisor holds
\* them for the step's task id: Completed for code 0, Failed for code 1.
C15_ExitCodeReported ==
    (Returned("update") /\ Len(res.names) = 1 /\ IsUnmanaged(res.names[1])
                        /\ table[mapping[res.names[1]].task_id].rc # None)
        => LET t == mapping[res.names[1]].task_id IN
           /\ res.raised = "none"
           /\ Len(res.ret) = 1
           /\ res.ret[1][1] = res.names[1]
           /\ res.ret[1][2].status \in Terminal
           /\ res.ret[1][2].status = table[t].status
           /\ res.ret[1][2].returncode = table[t].rc
           /\ table[t].rc = Some(0) => res.ret[1][2].status = "Completed"
           /\ table[t].rc = Some(1) => res.ret[1][2].status = "Failed"

\* The process of an unmanaged step exited with code 1 and the step was polled.
C15_Witness ==
    /\ Returned("update")
    /\ Len(res.names) = 1
    /\ IsUnmanaged(res.names[1])
    /\ table[mapping[res.names[1]].task_id].tracked
    /\ res.ret = << <<res.names[1], StepInfo("Failed", Some(1))>> >>

\* The step an entry stands for is over: its process has exited, or its job
\* has finished or left the scheduler's history.
RanToCompletion(e) ==
    /\ e.present
    /\ IF e.managed
       THEN JobOf(e.step_id) # 0 /\ jobs[JobOf(e.step_id)].st \in {"F", "X"}
       ELSE table[e.task_id].status \in {"Completed", "Failed"}

\* C16: a run under a name whose earlier step has run to completion raises
\* only when the launch itself fails; when it succeeds the entry of the name
\* is that of the new run (a fresh running task, or a job queued or running),
\* and a poll of the name reports the new run's status, not the finished
\* one's.  Every get_step_update reports a name from its current entry.
C16_Rerun ==
    /\ (Returned("run") /\ RanToCompletion(res.pre[res.name]))
          => /\ res.raised # "none" => res.subrc # 0 \/ res.nquery = Trials
             /\ res.raised = "none" =>
                   LET e == mapping[res.name] IN
                   /\ e = StepMap(res.ret, res.task, res.step.managed)
                   /\ e # res.pre[res.name]
                   /\ ActiveEntry(e)
                   /\ ~e.managed => e.task_id = ntasks
                   /\ \A view \in Views(jobs, GetIds(mapping, <<res.name>>, TRUE)[2]) :
                         LET u == StepUpdates(mapping, table, <<res.name>>, view) IN
                         /\ Len(u) = 1
                         /\ u[1][1] = res.name
                         /\ u[1][2].status \in NonTerminal
    /\ Returned("update")
          => \A i \in 1..Len(res.ret) :
                LET n == res.ret[i][1] IN
                IF IsUnmanaged(n)
                THEN /\ res.ret[i][2].status = table[mapping[n].task_id].status
                     /\ res.ret[i][2].returncode = table[mapping[n].task_id].rc
                ELSE ParseFailed(res.view, mapping[n].step_id)
                        \/ res.ret[i][2].status = RecordStatus(mapping[n].step_id)

\* An unmanaged step that had failed is started again under its name: the
\* run succeeds and the name now stands for the new, running task.
C16_Witness ==
    /\ Returned("run")
    /\ res.raised = "none"
    /\ ~res.pre[res.name].managed
    /\ RanToCompletion(res.pre[res.name])
    /\ table[res.pre[res.name].task_id].rc = Some(1)
    /\ mapping[res.name].task_id = ntasks
    /\ mapping[res.name].task_id # res.pre[res.name].task_id
    /\ table[mapping[res.name].task_id].status = "Running"

\* C17: one get_step_update makes at most one scheduler status query, which
\* carries the step ids of all managed names of the request in order, and
\* none when no requested name is managed; it asks the supervisor for one
\* task update per unmanaged name of the request, with that name's task id.
C17_QueriesBatched ==
    Returned("update") =>
        LET mn == SelectSeq(res.names, IsManaged)
            un == SelectSeq(res.names, IsUnmanaged)
        IN  /\ Len(res.qstat) <= 1
            /\ res.nstat = Len(res.qstat)
            /\ mn = << >> => res.qstat = << >>
            /\ mn # << >> =>
                  res.qstat = << [i \in 1..Len(mn) |-> mapping[mn[i]].step_id] >>
            /\ res.asked = [j \in 1..Len(un) |-> mapping[un[j]].task_id]
            /\ (\A i, j \in 1..Len(res.names) : res.names[i] = res.names[j] => i = j)
                  => \A t \in 1..MaxRuns :
                        Cardinality({j \in 1..Len(res.asked) : res.asked[j] = t})
                            = IF \E j \in 1..Len(un) : mapping[un[j]].task_id = t
                              THEN 1 ELSE 0

\* Two managed steps with different ids are polled in one call: one query
\* with both ids, no task update.
C17_Witness ==
    /\ Returned("update")
    /\ Len(res.names) = 2
    /\ IsManaged(res.names[1])
    /\ IsManaged(res.names[2])
    /\ Len(res.qstat) = 1
    /\ Len(res.qstat[1]) = 2
    /\ res.qstat[1][1] # res.qstat[1][2]
    /\ res.asked = << >>

\* C18: when the entry stop looks up has a task id, the task is removed from
\* the supervisor, for an unmanaged step and for a managed step alike, and
\* whether qdel exited zero or not: once stop has returned the task id is
\* not tracked, and no other task was removed.
C18_TaskRemoved ==
    (Returned("stop") /\ mapping[res.name].present /\ mapping[res.name].task_id # NoTask)
        => /\ ~table[mapping[res.name].task_id].tracked
           /\ res.removed \subseteq {mapping[res.name].task_id}

\* stop of a managed step that has a task id, with qdel exiting non-zero:
\* the task was tracked and has been removed.
C18_Witness ==
    /\ Returned("stop")
    /\ IsManaged(res.name)
    /\ mapping[res.name].task_id # NoTask
    /\ res.qdel_rc # 0
    /\ res.removed = {mapping[res.name].task_id}
    /\ ~table[mapping[res.name].task_id].tracked

\* C19: whenever run has returned or raised, and while it polls for an id,
\* the supervisor is monitoring; run calls start() only when the supervisor
\* is not monitoring, so over any sequence of runs start() is called at most
\* once and the loop, once active, stays active.
C19_MonitoringEnsured ==
    /\ [](/\ (Returned("run") \/ pc = "polling") => monitoring
          /\ starts <= 1
          /\ monitoring <=> starts = 1)
    /\ [][ /\ monitoring => monitoring' /\ starts' = starts
           /\ starts' # starts
                 => /\ ~monitoring
                    /\ starts' = starts + 1
                    /\ pc = "idle"
                    /\ pc' \in {"returned", "polling"} ]_vars

\* A run that raises a launch error after an earlier run had started the
\* monitoring loop.
C19_Witness ==
    /\ Returned("run")
    /\ res.raised = "LauncherError"
    /\ res.subrc # 0
    /\ njobs + ntasks >= 1
    /\ monitoring
    /\ starts = 1

\* The output of a submission yields a job identifier: it is not empty and
\* not whitespace only.
YieldsId(out) == out # None /\ Strip(out[1]) # << >>

\* C20: when the qsub of a Batch step exits zero and its output yields an
\* identifier, run registers and returns the output stripped of surrounding
\* whitespace, without any listing query or sleep; a run of a Batch step
\* queries the listing or sleeps only when the output yields no identifier.
C20_IdFromOutput ==
    (Returned("run") /\ res.step.kind = "Batch" /\ res.subrc = 0)
        => /\ YieldsId(res.out)
                => /\ res.raised = "none"
                   /\ res.ret = Some(Strip(res.out[1]))
                   /\ mapping[res.name].step_id = Some(Strip(res.out[1]))
                   /\ res.nquery = 0
                   /\ res.nsleep = 0
           /\ (res.nquery > 0 \/ res.nsleep > 0) => ~YieldsId(res.out)
           /\ ~YieldsId(res.out) => res.nsleep > 0 /\ res.nquery > 0

\* The output carries the id between a blank and a newline; run returns the
\* bare id with no query.
C20_Witness ==
    /\ Returned("run")
    /\ res.step.kind = "Batch"
    /\ res.subrc = 0
    /\ res.out # None
    /\ Len(res.out[1]) = 3
    /\ res.ret = Some(IdText(njobs))
    /\ res.nquery = 0
    /\ res.nsleep = 0

\* C21: once a run or stop call is over, every task the supervisor tracks is
\* the task id of some registry entry: neither a run that raises a launch
\* error nor a run that replaces the entry of its name leaves a tracked task
\* that no entry points to.
C21_NoOrphanTask ==
    pc # "polling" =>
        \A t \in 1..MaxRuns :
            table[t].tracked
                => \E n \in Names : mapping[n].present /\ mapping[n].task_id = t

\* The tasks the supervisor tracks.
Tracked(tb) == {t \in 1..MaxRuns : tb[t].tracked}

\* C22: get_step_update, for any list of names, leaves the registry, the
\* set of tracked tasks and their snapshots as they were, starts no task,
\* submits no job and cancels none.
C22_UpdateReadOnly ==
    [][ (pc = "idle" /\ pc' = "returned" /\ res'.op = "update")
            => /\ mapping' = mapping
               /\ mapping = res'.pre
               /\ Tracked(table') = Tracked(table)
               /\ table' = table
               /\ ntasks' = ntasks
               /\ njobs' = njobs
               /\ jobs' = jobs
               /\ res'.cancelled = << >>
               /\ res'.removed = {}
               /\ monitoring' = monitoring /\ starts' = starts ]_vars

\* A managed step with a live job and an unmanaged step whose task has
\* exited and is still tracked have just been polled together.
C22_Witness ==
    /\ Returned("update")
    /\ Len(res.names) = 2
    /\ Len(res.ret) = 2
    /\ IsManaged(res.ret[1][1])
    /\ Live(JobOf(mapping[res.ret[1][1]].step_id))
    /\ IsUnmanaged(res.ret[2][1])
    /\ res.ret[2][2].status \in Terminal
    /\ table[mapping[res.ret[2][1]].task_id].tracked
    /\ mapping = res.pre

\* C23: stop on a name that has no registry entry raises the lookup error
\* and does nothing else: no qdel, no task removed, no status poll or query,
\* nothing returned, and the registry, the task table and the scheduler are
\* as they were.
C23_StopUnknownName ==
    [][ (pc = "idle" /\ pc' = "returned" /\ res'.op = "stop"
                     /\ ~mapping[res'.name].present)
            => /\ res'.raised = "KeyError"
               /\ res'.ret = None
               /\ res'.cancelled = << >>
               /\ res'.removed = {}
               /\ res'.npoll = 0
               /\ res'.nstat = 0
               /\ res'.qstat = << >>
               /\ res'.asked = << >>
               /\ mapping' = mapping
               /\ table' = table
               /\ jobs' = jobs
               /\ njobs' = njobs /\ ntasks' = ntasks ]_vars

\* stop has raised for a name never run while another name has an entry, a
\* tracked running task and a live job that stop could have touched.
C23_Witness ==
    /\ Returned("stop")
    /\ res.raised = "KeyError"
    /\ ~mapping[res.name].present
    /\ \E n \in Names : mapping[n].present
    /\ \E t \in 1..MaxRuns : table[t].tracked /\ table[t].status = "Running"
    /\ \E k \in 1..MaxRuns : Live(k)

====
